---- MODULE Spec2Model ----
(***************************************************************************)
(* Model of vbox_backup.py: the backup orchestration of VirtualBoxBackup   *)
(* (run_backup, backup_vm, _resume_vm, _compress_backup,                   *)
(* cleanup_old_backups) against a hypervisor control plane whose commands  *)
(* succeed or fail and whose machines may be operated by other actors      *)
(* while a job waits.                                                      *)
(***************************************************************************)
EXTENDS Integers, Sequences, FiniteSets, TLC

\* ------------------------------------------------------------------ bounds

\* Largest number of files whose unlink raises in one sweep.
MaxUnlinkFails == 1

\* Largest number of entries of the backup directory when the process is
\* started with --cleanup-only.
MaxEntries == 2

\* The most lines the output of `list vms` has when get_vms_to_backup is
\* called on its own.
MaxLines == 3

\* The most lines the output of showvminfo has when _get_vm_state is called on
\* its own.
MaxInfoLines == 2

\* The most lines the child writes when the read loop of _run_command is run
\* on its own.
MaxOutput == 3

\* Clock ticks in one day (timedelta(days=1)); the clock ticks once per job
\* start, export, compression and sweep.
TicksPerDay == 3

\* ------------------------------------------------------------- value sets

\* The machines the control plane may list, by name (names are unique).
Machines == {1, 2}

\* VMState values of the control plane; "stuck" stands for every state that
\* is none of running, paused, saved, poweredoff, aborted (gurumeditation,
\* starting, saving, ...).
HvStates == {"running", "paused", "saved", "poweredoff", "aborted", "stuck"}

\* Values of handle_running_vms; "pause" stands for every value that is none
\* of suspend, skip, fail.
HandleValues == {"suspend", "skip", "fail", "pause"}

\* (vms_to_backup, vms_to_exclude) pairs of the configuration.
Selections ==
    { [backup |-> {}, exclude |-> {}],
      [backup |-> {2}, exclude |-> {2}],
      [backup |-> {}, exclude |-> Machines] }

Configs ==
    [ handle_running_vms : HandleValues,
      resume_after_backup : BOOLEAN,
      compression : BOOLEAN,
      include_manifest : BOOLEAN,
      auto_cleanup : BOOLEAN,
      retention_days : 0..1,
      select : Selections ]

VARIABLES
    config,      \* self.config, resolved values
    inventory,   \* machines registered with the control plane, listing order
    hv,          \* hv[vm]: the machine's actual state in the control plane
    dir,         \* entries of self.backup_dir
    clock,       \* datetime.now()
    pc,          \* position of the process
    vms,         \* run_backup: vms
    idx,         \* run_backup: position of the for loop in vms
    successful,  \* run_backup: successful
    failed,      \* run_backup: failed
    job,         \* backup_vm: locals of the current job
    invoked,     \* history: machines backup_vm was called for, in call order
    exports_ok,  \* history: number of export commands that exited with 0
    aborted,     \* history: number of jobs whose savestate or export failed
    sweeps,      \* history: number of calls of cleanup_old_backups
    swept,       \* cleanup_old_backups: deleted_count, freed_space and the
                 \* names whose unlink raised (logged at line 456)
    events,      \* history: what the run worked on, in order: <<machine,
                 \* "command">>, <<machine, "compress">>, <<0, "sweep">>
    call         \* a function called on its own: its arguments and result

vars == << config, inventory, hv, dir, clock, pc, vms, idx, successful, failed,
           job, invoked, exports_ok, aborted, sweeps, swept, events, call >>

\* ------------------------------------------------------------ file names

\* A file name is a stem and its dot-separated extensions: A_3.tar.gz is
\* [stem |-> <<1, 3>>, exts |-> <<"tar", "gz">>]; a stem <<0, 0>> is empty
\* (the name ".ova").
Name(stem, exts) == [stem |-> stem, exts |-> exts]

\* Path.suffix: the last extension, none for a name that is only a leading dot
\* and one extension.
suffix(name) ==
    IF Len(name.exts) = 0 THEN "none"
    ELSE IF name.stem = <<0, 0>> /\ Len(name.exts) = 1 THEN "none"
    ELSE name.exts[Len(name.exts)]

\* str.endswith('.' + e1 + ... ) for a sequence of extensions.
endswith(name, tail) ==
    /\ Len(name.exts) >= Len(tail)
    /\ SubSeq(name.exts, Len(name.exts) - Len(tail) + 1, Len(name.exts)) = tail

\* Path.with_suffix: the last extension replaced.
with_suffix(name, exts) ==
    Name(name.stem, SubSeq(name.exts, 1, Len(name.exts) - 1) \o exts)

\* A directory entry. entries: the members of an archive; complete: the
\* archive was closed after its last member was written.
File(name, kind, mtime, size, entries, complete) ==
    [name |-> name, kind |-> kind, mtime |-> mtime, size |-> size,
     entries |-> entries, complete |-> complete]

Plain(name, mtime, size) == File(name, "file", mtime, size, {}, TRUE)

exists(d, name) == \E f \in d : f.name = name

Without(d, name) == {f \in d : f.name # name}

RECURSIVE SumSize(_)
SumSize(fs) ==
    IF fs = {} THEN 0
    ELSE LET f == CHOOSE x \in fs : TRUE IN f.size + SumSize(fs \ {f})

\* -------------------------------------------------------- control plane

\* Output of showvminfo --machinereadable for a machine in state s: key=value
\* lines, the state under the key VMState.
showvminfo(s) ==
    << [key |-> "name", val |-> "vm"], [key |-> "VMState", val |-> s] >>

\* The states from which a command of the control plane can succeed.
CanSucceed(cmd, s) ==
    CASE cmd = "savestate" -> s \in {"running", "paused"}
      [] cmd = "startvm" -> s \in {"saved", "poweredoff", "aborted"}
      [] cmd = "resume" -> s = "paused"
      [] OTHER -> TRUE

\* The state a machine is in after a command that succeeded.
After(cmd, s) ==
    CASE cmd = "savestate" -> "saved"
      [] cmd = "startvm" -> "running"
      [] cmd = "resume" -> "running"
      [] OTHER -> s

\* ------------------------------------------------------- pure functions

\* A line of the output of `list vms` that is blank or holds no quoted name.
NoName == 0

\* list_vms: nothing when the call failed, else the quoted name of every line
\* that holds one, in the order of the output.
list_vms(success, output) ==
    IF ~success THEN << >>
    ELSE SelectSeq(output, LAMBDA line : line # NoName)

\* get_vms_to_backup applying the blacklist to the whitelist too.
get_vms_to_backup_applies_both(all_vms, vms_to_backup, vms_to_exclude) ==
    IF vms_to_backup # {}
    THEN SelectSeq(all_vms, LAMBDA vm : vm \in vms_to_backup
                                          /\ vm \notin vms_to_exclude)
    ELSE SelectSeq(all_vms, LAMBDA vm : vm \notin vms_to_exclude)

\* get_vms_to_backup: the whitelist when it is not empty, else everything but
\* the blacklist; all_vms is empty when the listing failed.
get_vms_to_backup(all_vms, vms_to_backup, vms_to_exclude) ==
    IF all_vms = << >> THEN << >>
    ELSE IF vms_to_backup # {}
         THEN SelectSeq(all_vms, LAMBDA vm : vm \in vms_to_backup)
         ELSE SelectSeq(all_vms, LAMBDA vm : vm \notin vms_to_exclude)



\* str.lower() on the texts of the model.
lower(t) ==
    CASE t = "Running" -> "running"
      [] t = "VMState" -> "vmstate"
      [] t = "VMStateChangeTime" -> "vmstatechangetime"
      [] OTHER -> t

\* w in t, for a word w of the substring scan and a text t of the model.
contains(t, w) == t = w \/ (t = "unsaved" /\ w = "saved")

\* line.startswith('VMState=') for the line key=val.
startswith_VMState(line) == line.key = "VMState"

\* get_vm_state trying the substring scan before the VMState line.
get_vm_state_scans_first(success, output) ==
    LET keyed == {i \in 1..Len(output) : startswith_VMState(output[i])}
        has(w) == \E i \in 1..Len(output) :
                     \/ contains(lower(output[i].key), w)
                     \/ contains(lower(output[i].val), w)
    IN  IF ~success THEN "unknown"
        ELSE IF has("running") THEN "running"
        ELSE IF has("paused") THEN "paused"
        ELSE IF has("saved") THEN "saved"
        ELSE IF keyed # {}
             THEN output[CHOOSE i \in keyed : \A j \in keyed : i <= j].val
        ELSE "poweredoff"

\* _get_vm_state: unknown when the call failed, else the value of the first
\* line that starts with VMState=, else the substring scan of the lowered
\* output. The state values of the control plane hold no = and no quote, so
\* split('=')[1].strip('"') is the value of the line.
get_vm_state(success, output) ==
    LET keyed == {i \in 1..Len(output) : startswith_VMState(output[i])}
        has(w) == \E i \in 1..Len(output) :
                     \/ contains(lower(output[i].key), w)
                     \/ contains(lower(output[i].val), w)
    IN  IF ~success THEN "unknown"
        ELSE IF keyed # {}
             THEN output[CHOOSE i \in keyed : \A j \in keyed : i <= j].val
        ELSE IF has("running") THEN "running"
        ELSE IF has("paused") THEN "paused"
        ELSE IF has("saved") THEN "saved"
        ELSE "poweredoff"

\* The points at which _compress_backup can raise.
CompressFailPoints ==
    {"none", "open", "add_image", "add_manifest", "close", "unlink_image",
     "unlink_manifest"}

\* compress_backup removing the originals before the archive is closed.
compress_backup_unlinks_early(d, path, fp, now) ==
    LET tgz == with_suffix(path, <<"tar", "gz">>)
        mf == with_suffix(path, <<"mf">>)
        has_mf == exists(d, mf)
        members == {<<"ova">>} \cup (IF has_mf THEN {<<"mf">>} ELSE {})
        tar(entries, complete) ==
            Without(d, tgz) \cup {File(tgz, "file", now, 3, entries, complete)}
    IN  IF ~exists(d, path) THEN d
        ELSE IF fp = "open" THEN d
        ELSE IF fp = "add_image" THEN tar({}, FALSE)
        ELSE IF fp = "add_manifest" /\ has_mf THEN tar({<<"ova">>}, FALSE)
        ELSE IF fp = "close"
             THEN Without(Without(tar(members, FALSE), path), mf)
        ELSE IF fp = "unlink_image" THEN tar(members, TRUE)
        ELSE IF fp = "unlink_manifest" /\ has_mf
             THEN Without(tar(members, TRUE), path)
        ELSE Without(Without(tar(members, TRUE), path), mf)

\* _compress_backup: the directory after compressing the image at path at time now,
\* raising at fp (an fp that is not passed raises nothing).
compress_backup(d, path, fp, now) ==
    LET compressed_path == with_suffix(path, <<"tar", "gz">>)
        manifest_path == with_suffix(path, <<"mf">>)
        image == CHOOSE f \in d : f.name = path
        has_mf == exists(d, manifest_path)
        manifest == CHOOSE f \in d : f.name = manifest_path
        members == {<<"ova">>} \cup (IF has_mf THEN {<<"mf">>} ELSE {})
        size == image.size + (IF has_mf THEN manifest.size ELSE 0)
        tar(entries, complete) ==
            Without(d, compressed_path)
                \cup {File(compressed_path, "file", now, size, entries, complete)}
    IN  IF ~exists(d, path) THEN d
        ELSE IF fp = "open" THEN d
        ELSE IF fp = "add_image" THEN tar({}, FALSE)
        ELSE IF fp = "add_manifest" /\ has_mf THEN tar({<<"ova">>}, FALSE)
        ELSE IF fp = "close" THEN tar(members, FALSE)
        ELSE IF fp = "unlink_image" THEN tar(members, TRUE)
        ELSE IF fp = "unlink_manifest" /\ has_mf
             THEN Without(tar(members, TRUE), path)
        ELSE Without(Without(tar(members, TRUE), path), manifest_path)

\* Whether _compress_backup raises at fp for this directory.
compress_raises(d, path, fp) ==
    /\ exists(d, path)
    /\ fp # "none"
    /\ fp \in {"add_manifest", "unlink_manifest"}
          => exists(d, with_suffix(path, <<"mf">>))

\* cleanup_old_backups, lines 439-442: the name is one of a backup.
is_backup_name(name) ==
    \/ suffix(name) \in {"ova", "tar.gz", "mf"}
    \/ endswith(name, <<"ova">>)
    \/ endswith(name, <<"tar", "gz">>)
    \/ endswith(name, <<"mf">>)

\* old_backups with a cutoff that is not strict.
old_backups_inclusive(d, now, retention_days) ==
    LET cutoff_date == now - retention_days * TicksPerDay
    IN  {f \in d : f.kind = "file" /\ is_backup_name(f.name)
                     /\ f.mtime <= cutoff_date}

\* cleanup_old_backups: the files the loop tries to unlink.
old_backups(d, now, retention_days) ==
    LET cutoff_date == now - retention_days * TicksPerDay
    IN  {f \in d : f.kind = "file" /\ is_backup_name(f.name)
                     /\ f.mtime < cutoff_date}

\* The sets of names whose unlink raises in one sweep.
UnlinkFails(fs) ==
    {ns \in SUBSET {f.name : f \in fs} : Cardinality(ns) <= MaxUnlinkFails}

\* cleanup_old_backups leaving its loop at the first unlink that raises.
cleanup_old_backups_stops_at_failure(d, now, retention_days, unlink_fails) ==
    LET deleted == IF unlink_fails = {} THEN old_backups(d, now, retention_days)
                   ELSE {}
    IN  [dir |-> d \ deleted,
         deleted_count |-> Cardinality(deleted),
         freed_space |-> SumSize(deleted)]

\* cleanup_old_backups: the directory and the counters after the sweep, the
\* unlink of the names in unlink_fails raising.
cleanup_old_backups(d, now, retention_days, unlink_fails) ==
    LET deleted == {f \in old_backups(d, now, retention_days) :
                        f.name \notin unlink_fails}
    IN  [dir |-> d \ deleted,
         deleted_count |-> Cardinality(deleted),
         freed_space |-> SumSize(deleted)]

\* ----------------------------------------------------- decisions of the code

\* handle_running with skip treated like every unrecognized value.
handle_running_skip_exports(vm_state, handle_running_vms) ==
    IF vm_state = "running"
    THEN IF handle_running_vms = "suspend"
         THEN [next |-> "suspend", was_running |-> TRUE, warned |-> FALSE]
         ELSE IF handle_running_vms = "fail"
         THEN [next |-> "return", was_running |-> FALSE, warned |-> FALSE]
         ELSE [next |-> "export", was_running |-> FALSE, warned |-> TRUE]
    ELSE [next |-> "export", was_running |-> FALSE,
          warned |-> vm_state \notin {"poweredoff", "saved", "paused",
                                      "aborted"}]

\* handle_running setting was_running for every machine found running that
\* the job goes on to export.
handle_running_marks_allow(vm_state, handle_running_vms) ==
    IF vm_state = "running"
    THEN IF handle_running_vms = "suspend"
         THEN [next |-> "suspend", was_running |-> TRUE, warned |-> FALSE]
         ELSE IF handle_running_vms \in {"skip", "fail"}
         THEN [next |-> "return", was_running |-> FALSE, warned |-> FALSE]
         ELSE [next |-> "export", was_running |-> TRUE, warned |-> TRUE]
    ELSE [next |-> "export", was_running |-> FALSE,
          warned |-> vm_state \notin {"poweredoff", "saved", "paused",
                                      "aborted"}]

\* backup_vm, lines 318-341: what the job does with the state it found.
\* next: the position after the check; was_running; warned: a warning logged.
handle_running(vm_state, handle_running_vms) ==
    IF vm_state = "running"
    THEN IF handle_running_vms = "suspend"
         THEN [next |-> "suspend", was_running |-> TRUE, warned |-> FALSE]
         ELSE IF handle_running_vms \in {"skip", "fail"}
         THEN [next |-> "return", was_running |-> FALSE, warned |-> FALSE]
         ELSE [next |-> "export", was_running |-> FALSE, warned |-> TRUE]
    ELSE [next |-> "export", was_running |-> FALSE,
          warned |-> vm_state \notin {"poweredoff", "saved", "paused",
                                      "aborted"}]

\* after_suspend without the check of the result of _suspend_vm.
after_suspend_ignores_failure(success) == "requery"

\* backup_vm, lines 322-329: a failed suspend returns, a successful one goes
\* on to the state query.
after_suspend(success) == IF success THEN "requery" ELSE "return"

\* warn_after_suspend without the warning.
warn_after_suspend_never(new_state) == FALSE

\* backup_vm, lines 330-331: the warning when the state queried after the
\* suspend is not saved.
warn_after_suspend(new_state) == new_state # "saved"

\* backup_vm, lines 386-390: compression, when enabled, before the return.
after_restore(compression) == IF compression THEN "compress" ELSE "return"

\* after_export without the check of resume_after_backup.
after_export_always_resumes(success, was_running, resume, compression) ==
    IF ~success THEN "return"
    ELSE IF was_running THEN "resume"
    ELSE after_restore(compression)

\* after_export restoring the machine the job suspended after a failed export
\* too.
after_export_restores_after_failure(success, was_running, resume_after_backup, compression) ==
    IF was_running /\ resume_after_backup THEN "resume"
    ELSE IF ~success THEN "return"
    ELSE after_restore(compression)

\* backup_vm, lines 371-388: a failed export returns; a successful one is
\* followed by the restoration of a machine the job suspended, unless
\* resume_after_backup is off.
after_export(success, was_running, resume_after_backup, compression) ==
    IF ~success THEN "return"
    ELSE IF was_running /\ resume_after_backup THEN "resume"
    ELSE after_restore(compression)

\* resume_choice reporting success for a state it cannot resume from.
resume_choice_always_ok(vm_state) ==
    IF vm_state = "saved" THEN "startvm"
    ELSE IF vm_state = "paused" THEN "controlvm_resume"
    ELSE "ok"

\* resume_choice starting a paused machine as it starts a saved one.
resume_choice_starts_paused(vm_state) ==
    IF vm_state \in {"saved", "paused"} THEN "startvm"
    ELSE IF vm_state = "running" THEN "ok"
    ELSE "fail"

\* _resume_vm, lines 271-295: the command for the state found, or the result
\* when there is none to issue.
resume_choice(vm_state) ==
    IF vm_state = "saved" THEN "startvm"
    ELSE IF vm_state = "paused" THEN "controlvm_resume"
    ELSE IF vm_state = "running" THEN "ok"
    ELSE "fail"

\* backup_vm_returns failing the job whose restoration or compression failed.
backup_vm_returns_strict(exported, restored, packed) ==
    exported = "ok" /\ restored # "fail" /\ packed \in {"none", "ok"}

\* backup_vm, lines 324, 334, 337, 373, 390: the value returned; only a job
\* whose export succeeded returns True, whatever the restoration and the
\* compression did.
backup_vm_returns(exported, restored, packed) == exported = "ok"

\* loop_continues leaving the loop at the first failed job.
loop_continues_until_failure(i, n, ret) == i < n /\ ret

\* loop_continues leaving the loop after the first machine.
loop_continues_first_only(i, n, ret) == FALSE

\* run_backup, line 480: the for loop goes on to the next machine.
loop_continues(i, n, ret) == i < n

\* run_backup, lines 471-473: an empty selection returns before the loop and
\* before the cleanup.
returns_early(selected) == selected = << >>

\* ----------------------------------------------------------------- state

\* The locals of backup_vm before it is called.
NoJob ==
    [vm |-> 0, ts |-> 0, vm_state |-> "none", was_running |-> FALSE,
     warned |-> FALSE, suspended |-> "none", new_state |-> "none",
     exported |-> "none",
     resume_state |-> "none", restored |-> "none", packed |-> "none",
     ret |-> FALSE, log |-> << >>, dir0 |-> {}, others_acted |-> FALSE]

\* The counters of cleanup_old_backups before it is called.
NoSweep == [deleted_count |-> 0, freed_space |-> 0, failures |-> {}]

\* No function has been called on its own.
NoCall == [fn |-> "none"]

\* The clock when the process starts.
StartClock == TicksPerDay + 1

\* A backup older than a day and one of less than a day that earlier runs
\* left in the backup directory.
OldArchive ==
    Plain(Name(<<1, 0>>, <<"tar", "gz">>), StartClock - TicksPerDay - 1, 2)
RecentImage == Plain(Name(<<1, 1>>, <<"ova">>), StartClock - 1, 2)

\* backup_vm, lines 302-303, 357, 397: the paths of the current job.
backup_path == Name(<<job.vm, job.ts>>, <<"ova">>)
manifest_path == with_suffix(backup_path, <<"mf">>)
compressed_path == with_suffix(backup_path, <<"tar", "gz">>)

InitRun ==
    /\ clock = StartClock
    /\ vms = << >>
    /\ idx = 0
    /\ successful = 0
    /\ failed = 0
    /\ job = NoJob
    /\ invoked = << >>
    /\ exports_ok = 0
    /\ aborted = 0
    /\ sweeps = 0
    /\ swept = NoSweep
    /\ events = << >>

Init ==
    /\ config \in Configs
    \* retention_days is read only by the cleanup and resume_after_backup only
    \* for a machine the job suspended: elsewhere they keep their defaults
    /\ ~config.auto_cleanup => config.retention_days = 1
    /\ config.handle_running_vms # "suspend" => config.resume_after_backup
    /\ \E n \in 0..Cardinality(Machines) :
         /\ inventory = [i \in 1..n |-> i]
         /\ hv \in [1..n -> HvStates]
    /\ dir = {OldArchive, RecentImage}
    /\ pc = "start"
    /\ call = NoCall
    /\ InitRun

\* The history es with the event e, noted once while the same work goes on.
Record(es, e) ==
    IF es # << >> /\ es[Len(es)] = e THEN es ELSE Append(es, e)

\* The job with the value backup_vm returns.
Returning(j) ==
    [j EXCEPT !.ret = backup_vm_returns(j.exported, j.restored, j.packed)]

\* ---------------------------------------------------------------- actions

\* run_backup, lines 469-478: the selection; an empty one returns at once.
run_backup_start ==
    /\ pc = "start"
    /\ \E listed \in BOOLEAN :
         LET all_vms == list_vms(listed, inventory)
             sel == get_vms_to_backup(all_vms, config.select.backup,
                                      config.select.exclude)
         IN  /\ vms' = sel
             /\ pc' = IF returns_early(sel) THEN "done"
                      ELSE IF sel = << >>
                      THEN (IF config.auto_cleanup THEN "cleanup" ELSE "done")
                      ELSE "call"
             /\ idx' = IF sel = << >> THEN 0 ELSE 1
    /\ UNCHANGED << config, inventory, hv, dir, clock, successful, failed, job,
                    invoked, exports_ok, aborted, sweeps, swept, events, call >>

\* backup_vm, lines 297-341: the state query and the handling of a running
\* machine up to the next command.
backup_vm_query ==
    /\ pc = "call"
    /\ \E success \in BOOLEAN :
         LET vm == vms[idx]
             vm_state == get_vm_state(success, showvminfo(hv[vm]))
             h == handle_running(vm_state, config.handle_running_vms)
             j == [NoJob EXCEPT !.vm = vm, !.ts = clock, !.vm_state = vm_state,
                                !.was_running = h.was_running,
                                !.warned = h.warned,
                                !.log = << "showvminfo" >>, !.dir0 = dir]
         IN  /\ job' = IF h.next = "return" THEN Returning(j) ELSE j
             /\ pc' = h.next
    /\ invoked' = Append(invoked, vms[idx])
    /\ events' = Record(events, <<vms[idx], "command">>)
    /\ UNCHANGED << config, inventory, hv, dir, clock, vms, idx, successful,
                    failed, exports_ok, aborted, sweeps, swept, call >>

\* _suspend_vm and backup_vm, lines 322-327: controlvm savestate.
backup_vm_suspend ==
    /\ pc = "suspend"
    /\ \E success \in BOOLEAN :
         /\ success => CanSucceed("savestate", hv[job.vm])
         /\ hv' = IF success THEN [hv EXCEPT ![job.vm] = After("savestate", @)]
                  ELSE hv
         /\ aborted' = IF success THEN aborted ELSE aborted + 1
         /\ pc' = after_suspend(success)
         /\ LET j == [job EXCEPT !.log = Append(@, "savestate"),
                                 !.suspended = IF success THEN "ok" ELSE "fail"]
            IN  job' = IF pc' = "return" THEN Returning(j) ELSE j
    /\ events' = Record(events, <<job.vm, "command">>)
    /\ UNCHANGED << config, inventory, dir, clock, vms, idx, successful, failed,
                    invoked, exports_ok, sweeps, swept, call >>

\* backup_vm, lines 329-331: the state query after the suspend.
backup_vm_requery ==
    /\ pc = "requery"
    /\ \E success \in BOOLEAN :
         LET new_state == get_vm_state(success, showvminfo(hv[job.vm]))
         IN  job' = [job EXCEPT !.log = Append(@, "showvminfo"),
                                !.new_state = new_state,
                                !.warned = warn_after_suspend(new_state)]
    /\ pc' = "export"
    /\ events' = Record(events, <<job.vm, "command">>)
    /\ UNCHANGED << config, inventory, hv, dir, clock, vms, idx, successful,
                    failed, invoked, exports_ok, aborted, sweeps, swept, call >>

\* backup_vm, lines 344-378: the export; it writes the image and, with
\* include_manifest, the sibling manifest.
backup_vm_export ==
    /\ pc = "export"
    /\ clock' = clock + 1
    /\ \E success \in BOOLEAN :
         LET j == [job EXCEPT !.log = Append(@, "export"),
                              !.exported = IF success THEN "ok" ELSE "fail"]
             written ==
                 {Plain(backup_path, clock', 2)}
                   \cup (IF config.include_manifest
                         THEN {Plain(manifest_path, clock', 1)}
                         ELSE {})
         IN  /\ dir' = IF success THEN dir \cup written ELSE dir
             /\ exports_ok' = IF success THEN exports_ok + 1 ELSE exports_ok
             /\ aborted' = IF success THEN aborted ELSE aborted + 1
             /\ pc' = after_export(success, job.was_running,
                                   config.resume_after_backup,
                                   config.compression)
             /\ job' = IF pc' = "return" THEN Returning(j) ELSE j
    /\ events' = Record(events, <<job.vm, "command">>)
    /\ UNCHANGED << config, inventory, hv, vms, idx, successful, failed,
                    invoked, sweeps, swept, call >>

\* _resume_vm, lines 269-295, up to its command: the state query picks it.
resume_vm_query ==
    /\ pc = "resume"
    /\ \E success \in BOOLEAN :
         LET vm_state == get_vm_state(success, showvminfo(hv[job.vm]))
             choice == resume_choice(vm_state)
             j == [job EXCEPT !.log = Append(@, "showvminfo"),
                              !.resume_state = vm_state,
                              !.restored = IF choice \in {"ok", "fail"}
                                           THEN choice ELSE @]
         IN  /\ pc' = IF choice \in {"ok", "fail"}
                      THEN after_restore(config.compression) ELSE choice
             /\ job' = IF pc' = "return" THEN Returning(j) ELSE j
    /\ events' = Record(events, <<job.vm, "command">>)
    /\ UNCHANGED << config, inventory, hv, dir, clock, vms, idx, successful,
                    failed, invoked, exports_ok, aborted, sweeps, swept, call >>

\* _resume_vm, lines 274-288: startvm --type headless or controlvm resume;
\* backup_vm, lines 380-384, only logs its result.
resume_vm_command(cmd) ==
    /\ pc = IF cmd = "startvm" THEN "startvm" ELSE "controlvm_resume"
    /\ \E success \in BOOLEAN :
         /\ success => CanSucceed(cmd, hv[job.vm])
         /\ hv' = IF success THEN [hv EXCEPT ![job.vm] = After(cmd, @)] ELSE hv
         /\ pc' = after_restore(config.compression)
         /\ LET j == [job EXCEPT !.log = Append(@, cmd),
                                 !.restored = IF success THEN "ok" ELSE "fail"]
            IN  job' = IF pc' = "return" THEN Returning(j) ELSE j
    /\ events' = Record(events, <<job.vm, "command">>)
    /\ UNCHANGED << config, inventory, dir, clock, vms, idx, successful, failed,
                    invoked, exports_ok, aborted, sweeps, swept, call >>

\* backup_vm, lines 387-390: _compress_backup, whose exception is caught.
backup_vm_compress ==
    /\ pc = "compress"
    /\ clock' = clock + 1
    /\ \E fp \in CompressFailPoints :
         /\ dir' = compress_backup(dir, backup_path, fp, clock')
         /\ job' = Returning([job EXCEPT !.packed =
                      IF compress_raises(dir, backup_path, fp) THEN fp
                      ELSE "ok"])
    /\ pc' = "return"
    /\ events' = Record(events, <<job.vm, "compress">>)
    /\ UNCHANGED << config, inventory, hv, vms, idx, successful, failed,
                    invoked, exports_ok, aborted, sweeps, swept, call >>

\* run_backup, lines 480-490: the tally of the job that returned, then the
\* next machine or the end of the loop.
run_backup_tally ==
    /\ pc = "return"
    /\ successful' = IF job.ret THEN successful + 1 ELSE successful
    /\ failed' = IF job.ret THEN failed ELSE failed + 1
    /\ IF loop_continues(idx, Len(vms), job.ret)
       THEN idx' = idx + 1 /\ pc' = "call"
       ELSE idx' = idx /\ pc' = IF config.auto_cleanup THEN "cleanup" ELSE "done"
    /\ job' = NoJob
    /\ UNCHANGED << config, inventory, hv, dir, clock, vms, invoked, exports_ok,
                    aborted, sweeps, swept, events, call >>

\* cleanup_old_backups, called by run_backup (line 490) or by main with
\* --cleanup-only (line 559).
run_cleanup ==
    /\ pc = "cleanup"
    /\ clock' = clock + 1
    /\ \E unlink_fails \in UnlinkFails(old_backups(dir, clock',
                                                   config.retention_days)) :
         LET r == cleanup_old_backups(dir, clock', config.retention_days,
                                      unlink_fails)
         IN  /\ dir' = r.dir
             /\ swept' = [deleted_count |-> r.deleted_count,
                          freed_space |-> r.freed_space,
                          failures |-> unlink_fails]
    /\ sweeps' = sweeps + 1
    /\ pc' = "done"
    /\ events' = Record(events, <<0, "sweep">>)
    /\ UNCHANGED << config, inventory, hv, vms, idx, successful, failed, job,
                    invoked, exports_ok, aborted, call >>

\* Another actor of the control plane changes the state of the machine the
\* job has suspended while the job waits: during the settle sleep (line 327)
\* or the export.
hv_change ==
    /\ pc \in {"requery", "export"}
    /\ job.was_running
    /\ \E s \in HvStates \ {hv[job.vm]} : hv' = [hv EXCEPT ![job.vm] = s]
    /\ job' = [job EXCEPT !.others_acted = TRUE]
    /\ UNCHANGED << config, inventory, dir, clock, pc, vms, idx, successful,
                    failed, invoked, exports_ok, aborted, sweeps, swept,
                    events, call >>

Next ==
    \/ run_backup_start
    \/ backup_vm_query
    \/ backup_vm_suspend
    \/ backup_vm_requery
    \/ backup_vm_export
    \/ resume_vm_query
    \/ resume_vm_command("startvm")
    \/ resume_vm_command("resume")
    \/ backup_vm_compress
    \/ run_backup_tally
    \/ run_cleanup
    \/ hv_change

Spec == Init /\ [][Next]_vars

\* ------------------------------------------- the process with --cleanup-only

\* Names a backup directory may hold: backups, files with other extensions,
\* the hidden file .ova, a file without extension.
EntryNames ==
    { Name(<<1, 0>>, <<"ova">>), Name(<<1, 0>>, <<"tar", "gz">>),
      Name(<<1, 0>>, <<"mf">>), Name(<<1, 0>>, <<"gz">>),
      Name(<<1, 0>>, <<"log">>), Name(<<1, 0>>, <<"ova", "bak">>),
      Name(<<0, 0>>, <<"ova">>), Name(<<1, 0>>, << >>) }

\* Entries around the cutoff of a sweep with retention_days = r: files of
\* every name and a subdirectory with the name of a backup.
Entries(r) ==
    LET cutoff == StartClock + 1 - r * TicksPerDay
        mtimes == {cutoff - 1, cutoff, cutoff + 1}
    IN  {Plain(n, t, sz) : n \in EntryNames, t \in mtimes, sz \in 1..2}
          \cup {File(Name(<<2, 0>>, <<"ova">>), "dir", t, 1, {}, TRUE) :
                  t \in mtimes}

\* The directories of at most k of the entries es, no name twice.
RECURSIVE Dirs(_, _)
Dirs(es, k) ==
    IF k = 0 THEN {{}}
    ELSE LET smaller == Dirs(es, k - 1)
             pairs == {p \in smaller \X es : ~exists(p[1], p[2].name)}
         IN  smaller \cup {p[1] \cup {p[2]} : p \in pairs}

\* main, lines 558-560: cleanup_old_backups alone, on any backup directory.
InitCleanup ==
    /\ config \in {c \in Configs :
                     /\ c.handle_running_vms = "suspend"
                     /\ c.resume_after_backup /\ c.compression
                     /\ c.include_manifest /\ c.auto_cleanup
                     /\ c.select = [backup |-> {}, exclude |-> {}]}
    /\ inventory = << >>
    /\ hv = << >>
    /\ dir \in Dirs(Entries(config.retention_days), MaxEntries)
    /\ pc = "cleanup"
    /\ call = NoCall
    /\ InitRun

NextCleanup == run_cleanup

SpecCleanup == InitCleanup /\ [][NextCleanup]_vars

\* ----------------------------------------------- functions called on their own

\* A configuration in which every option of the run is on.
AllOn ==
    [ handle_running_vms |-> "suspend", resume_after_backup |-> TRUE,
      compression |-> TRUE, include_manifest |-> TRUE, auto_cleanup |-> TRUE,
      retention_days |-> 1, select |-> [backup |-> {}, exclude |-> {}] ]

\* Names the lists of the configuration may hold: the machines and a name
\* that is not registered.
ConfigNames == Machines \cup {Cardinality(Machines) + 1}

\* Outputs of `list vms`: up to MaxLines lines, each the name of a machine or
\* a line without a name.
ListOutputs ==
    UNION {[1..n -> Machines \cup {NoName}] : n \in 0..MaxLines}

\* The state before a function is called on its own.
InitCall ==
    /\ hv = << >>
    /\ dir = {}
    /\ InitRun

\* get_vms_to_backup on any output of `list vms` and any pair of lists.
InitSelect ==
    /\ \E b \in SUBSET ConfigNames, e \in SUBSET ConfigNames :
         config = [AllOn EXCEPT !.select = [backup |-> b, exclude |-> e]]
    /\ inventory \in ListOutputs
    /\ pc = "get_vms_to_backup"
    /\ call = NoCall
    /\ InitCall

\* get_vms_to_backup, lines 207-225, with list_vms succeeding or failing.
get_vms_to_backup_call ==
    /\ pc = "get_vms_to_backup"
    /\ \E success \in BOOLEAN :
         call' = [fn |-> "get_vms_to_backup", success |-> success,
                  result |-> get_vms_to_backup(list_vms(success, inventory),
                                               config.select.backup,
                                               config.select.exclude)]
    /\ pc' = "done"
    /\ UNCHANGED << config, inventory, hv, dir, clock, vms, idx, successful,
                    failed, job, invoked, exports_ok, aborted, sweeps, swept,
                    events >>

NextSelect == get_vms_to_backup_call

SpecSelect == InitSelect /\ [][NextSelect]_vars

\* Lines of an output of showvminfo: key=value with the key VMState, a key
\* that is VMState but for its case, a key that VMState is a prefix of, or
\* another key, and a value that is a state or holds the name of one.
InfoLines ==
    [ key : {"VMState", "vmstate", "VMStateChangeTime", "name"},
      val : {"running", "Running", "paused", "saved", "unsaved",
             "poweredoff"} ]

InfoOutputs == UNION {[1..n -> InfoLines] : n \in 0..MaxInfoLines}

\* _get_vm_state on any output of showvminfo.
InitState ==
    /\ config = AllOn
    /\ inventory = << >>
    /\ \E o \in InfoOutputs : call = [fn |-> "none", output |-> o]
    /\ pc = "get_vm_state"
    /\ InitCall

\* _get_vm_state, lines 227-251, with the call succeeding or failing.
get_vm_state_call ==
    /\ pc = "get_vm_state"
    /\ \E success \in BOOLEAN :
         call' = [fn |-> "get_vm_state", success |-> success,
                  output |-> call.output,
                  result |-> get_vm_state(success, call.output)]
    /\ pc' = "done"
    /\ UNCHANGED << config, inventory, hv, dir, clock, vms, idx, successful,
                    failed, job, invoked, exports_ok, aborted, sweeps, swept,
                    events >>

NextState == get_vm_state_call

SpecState == InitState /\ [][NextState]_vars

\* Lines the child of an export may write, without the newline: text, text
\* with trailing blanks or a carriage return, a line of blanks, an empty line.
ChildLines == {"10%", "10% ", "  ", ""}

\* str.rstrip() on the lines of the model.
rstrip(line) ==
    CASE line = "10% " -> "10%"
      [] line = "  " -> ""
      [] OTHER -> line

ChildOutputs == UNION {[1..n -> ChildLines] : n \in 0..MaxOutput}

\* _run_command with show_progress, lines 152-161: the child is started and
\* nothing has been read; produced is what the child writes, stdout what is
\* still to be read.
InitRelay ==
    /\ config = AllOn
    /\ inventory = << >>
    /\ \E o \in ChildOutputs, rc \in 0..1 :
         call = [fn |-> "run_command", produced |-> o, stdout |-> o,
                 returncode |-> rc, console |-> << >>, log |-> << >>,
                 output_lines |-> << >>, success |-> FALSE]
    /\ pc = "read"
    /\ InitCall

\* _run_command, lines 163-168: one turn of the loop over process.stdout.
run_command_read ==
    /\ pc = "read"
    /\ call.stdout # << >>
    /\ LET line == rstrip(Head(call.stdout))
       IN  call' = IF line # ""
                   THEN [call EXCEPT !.stdout = Tail(@),
                                     !.console = Append(@, line),
                                     !.log = Append(@, line),
                                     !.output_lines = Append(@, line)]
                   ELSE [call EXCEPT !.stdout = Tail(@)]
    /\ UNCHANGED << config, inventory, hv, dir, clock, pc, vms, idx, successful,
                    failed, job, invoked, exports_ok, aborted, sweeps, swept,
                    events >>

\* _run_command, lines 170-172: the end of the output, process.wait() and
\* the result.
run_command_wait ==
    /\ pc = "read"
    /\ call.stdout = << >>
    /\ call' = [call EXCEPT !.success = (call.returncode = 0)]
    /\ pc' = "done"
    /\ UNCHANGED << config, inventory, hv, dir, clock, vms, idx, successful,
                    failed, job, invoked, exports_ok, aborted, sweeps, swept,
                    events >>

NextRelay == run_command_read \/ run_command_wait

SpecRelay == InitRelay /\ [][NextRelay]_vars

\* ------------------------------------------------------------------ claims

\* The commands of the current job other than the state queries.
Cmds == SelectSeq(job.log, LAMBDA c : c # "showvminfo")

\* The job found its machine running under handle_running_vms = suspend.
SuspendJob ==
    job.vm_state = "running" /\ config.handle_running_vms = "suspend"

\* C1 as stated: a machine found running under suspend whose export succeeded
\* with resume_after_backup on is running when its job ends, whatever the
\* state queries report and whatever the restoration command does.
C1_RunningAtJobEnd ==
    (pc = "return" /\ SuspendJob /\ job.exported = "ok"
        /\ config.resume_after_backup)
      => hv[job.vm] = "running"

\* C1 amended: for such a machine _resume_vm is called, and the machine is
\* running when its job ends whenever _resume_vm succeeded (the query reports
\* running, or saved or paused and the command succeeds); the job returns
\* True either way.
C1_RunningWhenResumed ==
    (pc = "return" /\ SuspendJob /\ job.exported = "ok"
        /\ config.resume_after_backup)
      => /\ job.restored # "none"
         /\ job.restored = "ok" => hv[job.vm] = "running"
         /\ job.ret

C1_Witness ==
    /\ pc = "return" /\ SuspendJob /\ job.exported = "ok"
    /\ config.resume_after_backup
    /\ job.restored = "ok"
    /\ Cmds = << "savestate", "export", "startvm" >>
    /\ hv[job.vm] = "running"

\* C2: a job that finds its machine running under skip or fail returns False
\* at once: its only command is the state query (no savestate, export, start
\* or resume) and the backup directory is as it was when the job began.
C2_SkipFailNoCommand ==
    (job.vm_state = "running" /\ config.handle_running_vms \in {"skip", "fail"})
      => /\ pc = "return"
         /\ ~job.ret
         /\ job.log = << "showvminfo" >>
         /\ dir = job.dir0

C2_Witness ==
    /\ pc = "return"
    /\ job.vm_state = "running"
    /\ config.handle_running_vms \in {"skip", "fail"}
    /\ hv[job.vm] = "running"

\* C3: for a machine found running under suspend the commands come in the
\* order savestate, export, then the restoration command; startvm is issued
\* only if the export succeeded, resume_after_backup is on and the state
\* queried again is saved; with resume_after_backup off no start or resume
\* command is ever issued.
C3_CommandOrder ==
    SuspendJob
      => /\ Cmds \in { << >>, << "savestate" >>, << "savestate", "export" >>,
                       << "savestate", "export", "startvm" >>,
                       << "savestate", "export", "resume" >> }
         /\ Len(Cmds) = 3 =>
               /\ job.exported = "ok"
               /\ config.resume_after_backup
               /\ Cmds[3] = "startvm" <=> job.resume_state = "saved"
         /\ Len(Cmds) >= 2 => job.suspended = "ok"
         /\ ~config.resume_after_backup =>
               \A i \in 1..Len(Cmds) : Cmds[i] \notin {"startvm", "resume"}

C3_Witness ==
    /\ pc = "return" /\ SuspendJob
    /\ Cmds = << "savestate", "export", "startvm" >>
    /\ job.resume_state = "saved"

\* C4: a job whose export exited with 0 returns True and is counted as
\* successful, also when the restoration or the compression failed.
C4_ExportOkIsSuccess ==
    /\ (pc = "return" /\ job.exported = "ok") => job.ret
    /\ successful + (IF job.exported = "ok" THEN 1 ELSE 0) >= exports_ok

C4_Witness ==
    /\ pc = "return" /\ job.exported = "ok" /\ job.ret
    /\ job.restored = "fail"
    /\ job.packed \in {"open", "add_image", "add_manifest", "close"}

\* The name ends with .ova, .tar.gz or .mf.
Recognized(name) ==
    LET n == Len(name.exts)
    IN  /\ n >= 1
        /\ \/ name.exts[n] \in {"ova", "mf"}
           \/ n >= 2 /\ name.exts[n - 1] = "tar" /\ name.exts[n] = "gz"

\* A sweep at time now with this configuration may delete the entry.
Eligible(f, now) ==
    /\ f.kind = "file"
    /\ Recognized(f.name)
    /\ f.mtime < now - config.retention_days * TicksPerDay

\* C5: the sweep deletes an entry only if it is a file of the directory whose
\* name ends with .ova, .tar.gz or .mf and whose modification time is
\* strictly before now - retention_days; it deletes every such file whose
\* unlink does not raise, and leaves every other entry as it is.
C5_SweepDeletesOldBackups ==
    [][pc = "cleanup" =>
         /\ \A f \in dir : f \notin dir' => Eligible(f, clock')
         /\ \A f \in dir :
              (Eligible(f, clock') /\ f.name \notin swept'.failures)
                 => f \notin dir'
         /\ dir' \subseteq dir]_vars

C5_Witness ==
    /\ pc = "done" /\ sweeps = 1
    /\ swept.deleted_count = 1 /\ swept.failures = {}
    /\ \E f \in dir :
         /\ f.kind = "file" /\ Recognized(f.name)
         /\ f.mtime = clock - config.retention_days * TicksPerDay

\* The exceptions of _compress_backup raised while the archive is written.
WriteFailures == {"open", "add_image", "add_manifest", "close"}

\* C6: _compress_backup removes the image or its manifest only when the
\* archive is complete and holds the image and the manifest that exists (two
\* members then); when writing the archive fails, both remain as they were.
C6_OriginalsOutliveArchive ==
    [][pc = "compress" =>
         LET originals == {f \in dir : f.name \in {backup_path, manifest_path}}
         IN  /\ originals \ dir' # {} =>
                   \E a \in dir' :
                      /\ a.name = compressed_path
                      /\ a.complete
                      /\ a.entries = {f.name.exts : f \in originals}
             /\ job'.packed \in WriteFailures => originals \subseteq dir']_vars

C6_Witness ==
    /\ pc = "return" /\ job.packed = "ok"
    /\ ~exists(dir, backup_path) /\ ~exists(dir, manifest_path)
    /\ \E a \in dir :
         /\ a.name = compressed_path /\ a.complete
         /\ a.entries = {<<"ova">>, <<"mf">>}

\* C7: after a failure of the packaging no file is left at the path of the
\* archive.
C7_NoArchiveAfterFailure ==
    (pc = "return" /\ job.packed \in WriteFailures)
      => ~exists(dir, compressed_path)

\* C8: backup_vm is called once for each selected machine, in the order of
\* the list, whatever the earlier jobs returned, and at the end of the loop
\* successful + failed is the number of selected machines.
C8_EveryMachineOnce ==
    /\ Len(invoked) <= Len(vms)
    /\ invoked = SubSeq(vms, 1, Len(invoked))
    /\ successful + failed = Len(invoked) - (IF job.vm # 0 THEN 1 ELSE 0)
    /\ (pc \in {"cleanup", "done"} /\ vms # << >>) =>
          /\ invoked = vms
          /\ successful + failed = Len(vms)

C8_Witness ==
    /\ pc = "done" /\ Len(vms) = 2
    /\ invoked = vms
    /\ failed = 2

\* C9: a run with auto_cleanup on calls the sweep once, whatever the
\* selection, an empty one included.
C9_SweepOncePerRun ==
    (pc = "done" /\ config.auto_cleanup) => sweeps = 1

\* The current job has been aborted by a failed savestate or export.
AbortedJob == job.suspended = "fail" \/ job.exported = "fail"

\* The archives of a directory.
Archives(d) == {f \in d : Recognized(f.name) /\ f.name.exts # <<"ova">>
                              /\ f.name.exts # <<"mf">>}

\* C10: a failed savestate returns False without an export; a failed export
\* returns False without compression and without a new archive; the job is
\* counted as failed and the loop goes on to the next machine.
C10_FailedCommandAbortsJob ==
    /\ job.suspended = "fail" =>
          /\ pc = "return" /\ ~job.ret
          /\ job.exported = "none"
          /\ Cmds = << "savestate" >>
    /\ job.exported = "fail" =>
          /\ pc = "return" /\ ~job.ret
          /\ job.packed = "none"
          /\ Cmds[Len(Cmds)] = "export"
          /\ Archives(dir) = Archives(job.dir0)
    /\ failed + (IF AbortedJob THEN 1 ELSE 0) >= aborted
    /\ (pc \in {"cleanup", "done"} /\ vms # << >>) => Len(invoked) = Len(vms)

C10_Witness ==
    /\ idx = 2 /\ pc = "return"
    /\ job.suspended = "fail"
    /\ aborted = 2 /\ failed = 1

\* C11 as stated: a job whose state query failed (state unknown) is aborted:
\* it issues no export command and returns False.
C11_FailedQueryAborts ==
    job.vm_state = "unknown"
      => /\ pc = "return"
         /\ ~job.ret
         /\ job.log = << "showvminfo" >>

\* C12: an unlink that raises does not stop the sweep: every other file the
\* sweep may delete is deleted, the files whose unlink raised stay, and
\* deleted_count and freed_space are the number and the total size of the
\* files that are gone.
C12_FailedDeleteGoesOn ==
    [][pc = "cleanup" =>
         LET gone == dir \ dir'
         IN  /\ \A f \in dir :
                  (Eligible(f, clock') /\ f.name \notin swept'.failures)
                     => f \in gone
             /\ \A f \in dir : f.name \in swept'.failures => f \in dir'
             /\ swept'.deleted_count = Cardinality(gone)
             /\ swept'.freed_space = SumSize(gone)]_vars

C12_Witness ==
    /\ pc = "done" /\ sweeps = 1
    /\ swept.failures # {}
    /\ swept.deleted_count = 1 /\ swept.freed_space >= 1
    /\ \A f \in dir : f.name \in swept.failures => Eligible(f, clock)

\* C13 as stated: the tally of a job that found its machine running under
\* skip does not increase the failed count.
C13_SkipIsNotFailure ==
    [][(pc = "return" /\ job.vm_state = "running"
          /\ config.handle_running_vms = "skip")
         => failed' = failed]_vars

\* How often the name n occurs in the sequence s.
Count(s, n) == Cardinality({i \in DOMAIN s : s[i] = n})

\* C14: get_vms_to_backup returns the listed machines whose name is in
\* vms_to_backup when that list is not empty, vms_to_exclude being ignored,
\* and else the listed machines whose name is not in vms_to_exclude; it
\* returns nothing but listed machines, and nothing at all when the listing
\* failed or listed no machine.
C14_Selection ==
    call.fn = "get_vms_to_backup"
      => LET wanted(n) == IF config.select.backup # {}
                          THEN n \in config.select.backup
                          ELSE n \notin config.select.exclude
         IN  /\ \A n \in Machines :
                  Count(call.result, n) =
                      IF call.success /\ wanted(n) THEN Count(inventory, n)
                      ELSE 0
             /\ \A i \in DOMAIN call.result : call.result[i] \in Machines
             /\ \A i, j \in DOMAIN call.result :
                  (i < j /\ call.result[i] # call.result[j])
                     => \E k, l \in DOMAIN inventory :
                          /\ k < l
                          /\ inventory[k] = call.result[i]
                          /\ inventory[l] = call.result[j]

C14_Witness ==
    /\ call.fn = "get_vms_to_backup"
    /\ call.success
    /\ \E n \in config.select.backup \cap config.select.exclude :
         Count(call.result, n) >= 1
    /\ \E n \in Machines : Count(inventory, n) >= 1 /\ Count(call.result, n) = 0

\* The output, lowered, holds the word w.
Mentions(output, w) ==
    \E i \in DOMAIN output :
       contains(lower(output[i].key), w) \/ contains(lower(output[i].val), w)

\* C15: _get_vm_state returns unknown when the call failed; else the value of
\* the first line that starts with VMState=, whatever else the output holds;
\* and only when no line starts with VMState= the first of running, paused,
\* saved that the lowered output holds, poweredoff when it holds none.
C15_StructuredFirst ==
    call.fn = "get_vm_state"
      => LET o == call.output
             structured == {i \in DOMAIN o : o[i].key = "VMState"}
         IN  /\ ~call.success => call.result = "unknown"
             /\ (call.success /\ structured # {})
                  => \E i \in structured :
                       /\ \A j \in structured : i <= j
                       /\ call.result = o[i].val
             /\ (call.success /\ structured = {})
                  => call.result =
                       IF Mentions(o, "running") THEN "running"
                       ELSE IF Mentions(o, "paused") THEN "paused"
                       ELSE IF Mentions(o, "saved") THEN "saved"
                       ELSE "poweredoff"

C15_Witness ==
    /\ call.fn = "get_vm_state"
    /\ call.success
    /\ Len(call.output) = 2
    /\ call.output[1].key = "name" /\ call.output[1].val = "Running"
    /\ call.output[2].key = "VMState"
    /\ call.result = "saved"

\* The commands of the current job hold the command c.
Issued(c) == \E i \in DOMAIN job.log : job.log[i] = c

\* C16 as stated: a job that found its machine running under pause goes on to
\* the export only after it has issued a pause command.
C16_PauseBeforeExport ==
    (job.vm_state = "running" /\ config.handle_running_vms = "pause"
        /\ (pc = "export" \/ Issued("export")))
      => Issued("pause")

\* The states in which the control plane holds no lock on the disks.
Unlocked == {"poweredoff", "saved", "paused", "aborted"}

\* The state the current job observed last before its export.
LastObserved ==
    IF job.new_state # "none" THEN job.new_state ELSE job.vm_state

\* C17: when a job is about to issue its export, the state it observed last
\* is poweredoff, saved, paused or aborted, or the job has logged a warning.
C17_ExportSafeOrWarned ==
    pc = "export" => (LastObserved \in Unlocked \/ job.warned)

C17_Witness ==
    /\ pc = "export"
    /\ job.suspended = "ok"
    /\ job.new_state = "running"
    /\ job.warned

\* The current job is in _suspend_vm or _resume_vm, or has issued one of
\* their commands.
Transitions ==
    \/ pc \in {"suspend", "resume", "startvm", "controlvm_resume"}
    \/ Issued("savestate") \/ Issued("startvm") \/ Issued("resume")

\* C18: a job issues a start or resume command only after a savestate of its
\* own that succeeded, for a machine it found running under suspend; a job
\* that found its machine not running, or running under a policy other than
\* suspend, skip and fail, issues no savestate, start or resume command.
C18_RestoreOnlyAfterSuspend ==
    /\ \A j \in DOMAIN job.log :
         job.log[j] \in {"startvm", "resume"}
           => /\ SuspendJob
              /\ job.suspended = "ok"
              /\ \E i \in 1..(j - 1) : job.log[i] = "savestate"
    /\ pc \in {"resume", "startvm", "controlvm_resume"}
         => (SuspendJob /\ job.suspended = "ok" /\ Issued("savestate"))
    /\ (job.vm # 0
          /\ \/ job.vm_state # "running"
             \/ config.handle_running_vms \notin {"suspend", "skip", "fail"})
         => ~Transitions

C18_Witness ==
    /\ pc = "return"
    /\ job.vm_state = "running"
    /\ config.handle_running_vms = "pause"
    /\ config.resume_after_backup
    /\ job.exported = "ok"
    /\ job.log = << "showvminfo", "export" >>

\* The restoration commands the current job has issued.
RestoreCmds == SelectSeq(job.log, LAMBDA c : c \in {"startvm", "resume"})

\* C19: _resume_vm acts on the state it queries: saved, one startvm; paused,
\* one controlvm resume; running, no command and the result True; any other
\* state, no command and the result False, which backup_vm only logs: the job
\* returns True all the same.
C19_ResumeByState ==
    /\ pc = "startvm" => (job.resume_state = "saved" /\ RestoreCmds = << >>)
    /\ pc = "controlvm_resume"
         => (job.resume_state = "paused" /\ RestoreCmds = << >>)
    /\ job.restored # "none"
         => /\ job.resume_state = "saved" => RestoreCmds = << "startvm" >>
            /\ job.resume_state = "paused" => RestoreCmds = << "resume" >>
            /\ job.resume_state = "running"
                 => (RestoreCmds = << >> /\ job.restored = "ok")
            /\ job.resume_state \notin {"saved", "paused", "running"}
                 => (RestoreCmds = << >> /\ job.restored = "fail")
            /\ pc = "return" => job.ret

C19_Witness ==
    /\ pc = "return"
    /\ job.resume_state = "paused"
    /\ job.restored = "ok"
    /\ RestoreCmds = << "resume" >>
    /\ hv[job.vm] = "running"

\* The place of the machine v in the selection.
Place(v) == CHOOSE k \in DOMAIN vms : vms[k] = v

\* The commands of a whole pipeline, in order: the state query, the suspend
\* and the query after it, the export, the query of _resume_vm and its
\* command.
Pipelines ==
    { << "showvminfo", "export" >>,
      << "showvminfo", "savestate", "showvminfo", "export", "showvminfo",
         "startvm" >>,
      << "showvminfo", "savestate", "showvminfo", "export", "showvminfo",
         "resume" >> }

\* C20: the work of a run is one block per machine, in the order of the
\* selection, each block its commands and then its compression, never a
\* command after the compression; the commands of a job are a beginning of
\* state query, suspend, export, restoration; a compression starts only after
\* the export and, where the job restores, after the restoration; the sweep
\* comes last, after the work on every selected machine.
C20_PipelinesInOrder ==
    /\ \A i, j \in DOMAIN events :
         i < j =>
           /\ events[i][1] # 0
           /\ events[j][1] # 0 => Place(events[i][1]) <= Place(events[j][1])
           /\ events[i][1] = events[j][1]
                => (events[i][2] = "command" /\ events[j][2] = "compress")
    /\ \A i \in DOMAIN events :
         /\ events[i][1] # 0 => \E k \in DOMAIN vms : vms[k] = events[i][1]
         /\ events[i][1] = 0
              => /\ pc = "done"
                 /\ \A k \in DOMAIN vms :
                      \E e \in DOMAIN events : events[e][1] = vms[k]
    /\ \E p \in Pipelines, n \in 0..Len(job.log) :
         n <= Len(p) /\ job.log = SubSeq(p, 1, n)
    /\ (pc = "compress" \/ job.packed # "none")
         => /\ job.exported = "ok"
            /\ (job.was_running /\ config.resume_after_backup)
                 => job.restored # "none"
    /\ job.packed # "none" => pc = "return"

C20_Witness ==
    /\ pc = "done"
    /\ successful = 2
    /\ hv = << "running", "saved" >>
    /\ events = << <<1, "command">>, <<1, "compress">>,
                   <<2, "command">>, <<2, "compress">>, <<0, "sweep">> >>

\* The lines of the child that the read loop has taken so far, each without
\* its trailing whitespace.
Arrived ==
    LET n == Len(call.produced) - Len(call.stdout)
    IN  [i \in 1..n |-> rstrip(call.produced[i])]

\* C21 as stated: the read loop relays every line of the child, in order and
\* dropping none: the console, the log and the accumulated lines are the
\* lines that have arrived (a line counts as relayed when it is relayed
\* without its trailing whitespace).
C21_RelaysEveryLine ==
    call.fn = "run_command"
      => /\ call.output_lines = Arrived
         /\ call.console = Arrived
         /\ call.log = Arrived

\* C22: a job that suspended its machine and whose export failed returns
\* False after the export: it issues no start or resume command and no
\* further state query, so the machine is saved when the job ends unless
\* another actor changed its state meanwhile, also with resume_after_backup
\* on; and the run never changes the state of a machine whose job has ended.
C22_SuspendedStaysSaved ==
    [][/\ (pc' = "return" /\ job'.suspended = "ok" /\ job'.exported = "fail")
            => /\ ~job'.ret
               /\ job'.log = << "showvminfo", "savestate", "showvminfo",
                                "export" >>
               /\ job'.restored = "none" /\ job'.resume_state = "none"
               /\ ~job'.others_acted => hv'[job'.vm] = "saved"
       /\ pc = "return" => hv' = hv
       /\ \A v \in DOMAIN hv :
            (v # job.vm /\ \E i \in DOMAIN invoked : invoked[i] = v)
               => hv'[v] = hv[v]]_vars

C22_Witness ==
    /\ pc = "return"
    /\ job.vm = 1 /\ Len(vms) = 2
    /\ config.resume_after_backup
    /\ job.suspended = "ok" /\ job.exported = "fail"
    /\ ~job.others_acted
    /\ hv[job.vm] = "saved"

\* The file was written by a job of this run: its name bears a time stamp of
\* the run, and it was written to its end.
OfThisRun(f) == f.name.stem[2] >= StartClock /\ f.complete

\* C23 as stated: the sweep that ends a run deletes no image, manifest or
\* archive that a job of the same run produced, whatever retention_days is.
C23_SweepKeepsThisRun ==
    [][pc = "cleanup" => \A f \in dir : OfThisRun(f) => f \in dir']_vars

====
